---- MODULE Spec2Model ----
(***************************************************************************)
(* Default Error Tracer (DET) of the ASIL-D VCU project, det.c v1.2.0:     *)
(* the deduplicating circular error buffer, the severity filter, the      *)
(* callback registry, the statistics, the lifecycle state and the         *)
(* spinlock that guards the buffer when DET_MULTICORE_SUPPORT is STD_ON.   *)
(*                                                                         *)
(* Build configuration modelled: DET_ENABLED, DET_ENABLE_STATISTICS,       *)
(* DET_ENABLE_SEVERITY_LEVELS, DET_ENABLE_ERROR_FILTERING,                 *)
(* DET_TRACK_SUPPRESSION, DET_UNIQUE_CALLBACK_CHECK, DET_VERSION_INFO_API  *)
(* and DET_MULTICORE_SUPPORT all STD_ON.                                   *)
(*                                                                         *)
(* Number representation: TLC's integers are 32-bit signed, so the uint32  *)
(* value 0xFFFFFFFF is written as its residue -1 modulo 2^32.  It occurs  *)
(* as DET_TIMESTAMP_INVALID and as the wrapped index of the dedup scan.    *)
(* The uint32 counters stay far below 2^32 (a behaviour makes at most      *)
(* MaxCalls calls), so their increments never wrap in the model.           *)
(***************************************************************************)
EXTENDS Integers, Sequences, FiniteSets, TLC

(***************************************************************************)
(* Bounds of the model: build-time sizes of the program, scaled down     *)
(* (det.h sets the buffer size to 64, det.c the spin count to 1000; the    *)
(* size of the callback registry comes from the build configuration).     *)
(***************************************************************************)
DET_MAX_ERROR_BUFFER_SIZE == 2
DET_MAX_CALLBACKS == 2
DET_SPINLOCK_TIMEOUT_US == 2
\* API calls in one single-context behaviour: Det_Init, Det_Start, enough
\* reports to fill the buffer and overwrite its oldest entry, one call more
MaxCalls == DET_MAX_ERROR_BUFFER_SIZE + 3
\* API calls the two contexts of a concurrent behaviour make between them
MaxOpsMC == 2

(***************************************************************************)
(* Program constants.                                                      *)
(***************************************************************************)
E_OK == 0
E_NOT_OK == 1
NULL_PTR == 0
DET_STATE_UNINIT == 0
DET_STATE_INIT == 1
DET_STATE_STARTED == 2
DET_SEVERITY_WARNING == 0
DET_SEVERITY_ERROR == 1
DET_SEVERITY_FATAL == 2
DET_MAX_MODULE_COUNT == 256
DET_MODULE_ID_GLOBAL_FILTER == 65535
DET_TIMESTAMP_INVALID == -1
DET_VENDOR_ID == 43
DET_MODULE_ID == 15
DET_INSTANCE_ID == 0
DET_SW_MAJOR_VERSION == 1
DET_SW_MINOR_VERSION == 1
DET_SW_PATCH_VERSION == 0
DET_GET_VERSION_INFO_API_ID == 3
DET_E_PARAM_POINTER == 1
\* used by det.c, defined by the det.h v1.2.0 it was written against
DET_REGISTER_CALLBACK_API_ID == 8
DET_E_MAX_CALLBACKS_REACHED == 6
DET_E_CALLBACK_DUPLICATE == 7
DET_UNIQUE_CALLBACK_CHECK == TRUE

(***************************************************************************)
(* Inputs.                                                                 *)
(***************************************************************************)
\* signatures reported by the calling modules: <<ModuleId, InstanceId, ApiId, ErrorId>>
CallerSigs ==
    { <<1, 0, 1, 1>>, <<1, 0, 1, 2>>, <<2, 0, 1, 1>>, <<2, 0, 2, 1>> }
\* signatures DET reports about itself
SelfSig(ApiId, ErrorId) == <<DET_MODULE_ID, DET_INSTANCE_ID, ApiId, ErrorId>>
ModuleIds == {1, 2, DET_MODULE_ID}
\* the entries of Det_Filters[] the model's modules can index
FilterIndex == { m \in ModuleIds : m < DET_MAX_MODULE_COUNT }
\* ModuleId arguments of Det_SetFilter: a module, the sentinel, an invalid id
FilterArgs == {1, DET_MODULE_ID_GLOBAL_FILTER, DET_MAX_MODULE_COUNT}
\* MinSeverity arguments of Det_SetFilter: the enumeration and one value beyond it
SeverityArgs == DET_SEVERITY_WARNING .. (DET_SEVERITY_FATAL + 1)
\* observer function pointers
Observers == 1 .. (DET_MAX_CALLBACKS + 1)
Contexts == {1, 2}
NoSig == <<>>
NoOut == <<>>
NoLocal == <<>>
NoTrail == [valid |-> FALSE, sigs |-> <<>>]
NoTeardown == [stage |-> 0, dirty |-> FALSE]
NoSetup == [observers |-> {}, keys |-> {}]
NoHistory == [live |-> NoSetup, early |-> NoSetup, discarded |-> NoSetup]
\* the keys of the thresholds a caller can set: the modules and the sentinel
FilterKeys == FilterIndex \cup {DET_MODULE_ID_GLOBAL_FILTER}

VARIABLES
    Det_State,              \* lifecycle state
    Det_ErrorBuffer,        \* [0..N-1 -> Det_ErrorEntryType]
    Det_BufferWriteIndex,
    Det_BufferEntryCount,
    Det_Callbacks,          \* [0..K-1 -> observer or NULL_PTR]
    Det_CallbackCount,
    Det_Statistics,
    Det_Filters,            \* [FilterIndex -> Det_FilterEntryType]
    Det_GlobalFilter,
    Det_BufferLock,         \* Det_SpinlockType
    timestamp_counter,      \* the static of Det_GetTimestamp
    pc,                     \* per context: position inside the running operation
    local,                  \* per context: the running operation's arguments and locals
    nops,                   \* calls the two contexts have begun
    nsteps,                 \* API calls made so far, queries apart
    lastOp,                 \* the API call that made the last step, with its arguments
    lastRet,                \* its return value
    notified,               \* the observer calls it made, in order: <<observer, signature>>
    out,                    \* what it wrote through its output pointer
    runLen,                 \* length of the current run of accepted reports of one signature
    runFresh,               \* whether that signature was absent when the run began
    trail,                  \* the signatures reported since the store was last emptied
                            \* in Started state with default filters (valid), while
                            \* nothing else touched the store or the filters
    evicted,                \* valid entries overwritten since the statistics were last reset
    configured,             \* per key of FilterKeys: whether Det_SetFilter has set it since
                            \* Det_Init last initialised the module (set), and the
                            \* threshold it was given last (level)
    inserted,               \* the slots holding valid entries, in the order the entries
                            \* were inserted, oldest first
    teardown,               \* how far the last calls spell Det_DeInit, Det_Init,
                            \* Det_Start (stage 0 .. 3), and whether that Det_DeInit
                            \* found anything to clear (dirty)
    history                 \* the observers registered and the filter keys set with
                            \* E_OK: since Det_Init last initialised the module
                            \* (live), in Uninitialized state (early), and in
                            \* Uninitialized state before that Det_Init (discarded)

progvars == <<Det_State, Det_ErrorBuffer, Det_BufferWriteIndex, Det_BufferEntryCount,
              Det_Callbacks, Det_CallbackCount, Det_Statistics, Det_Filters,
              Det_GlobalFilter, Det_BufferLock, timestamp_counter>>
mcvars == <<pc, local, nops>>
obsvars == <<nsteps, lastOp, lastRet, notified, out, runLen, runFresh, trail, evicted,
             configured, inserted, teardown, history>>
vars == <<progvars, mcvars, obsvars>>

(***************************************************************************)
(* Data types.                                                             *)
(***************************************************************************)
\* mutation of Entry: the record is stored one severity level below
Entry_Downgraded(sig, severity, timestamp, occurrences) ==
    [moduleId |-> sig[1], instanceId |-> sig[2], apiId |-> sig[3], errorId |-> sig[4],
     severity |-> IF severity > 0 THEN severity - 1 ELSE severity,
     timestamp |-> timestamp, occurrences |-> occurrences]

Entry(sig, severity, timestamp, occurrences) ==
    [moduleId |-> sig[1], instanceId |-> sig[2], apiId |-> sig[3], errorId |-> sig[4],
     severity |-> severity, timestamp |-> timestamp, occurrences |-> occurrences]

Sig(e) == <<e.moduleId, e.instanceId, e.apiId, e.errorId>>

\* no threshold set: the global threshold at its default, no module's set
NoneConfigured ==
    [k \in FilterKeys |-> [set |-> FALSE, level |-> DET_SEVERITY_WARNING]]

\* seq without the occurrences of x
Without(seq, x) == LET Keep(y) == y # x IN SelectSeq(seq, Keep)

\* mutation of ZeroStatistics: buffer_overflows is left at 1
ZeroStatistics_KeepsOverflows ==
    [total_errors |-> 0, unique_errors |-> 0, buffer_overflows |-> 1,
     runtime_errors |-> 0, transient_faults |-> 0,
     warnings |-> 0, errors |-> 0, fatals |-> 0, suppressed_by_filter |-> 0]

ZeroStatistics ==
    [total_errors |-> 0, unique_errors |-> 0, buffer_overflows |-> 0,
     runtime_errors |-> 0, transient_faults |-> 0,
     warnings |-> 0, errors |-> 0, fatals |-> 0, suppressed_by_filter |-> 0]

Slots == 0 .. (DET_MAX_ERROR_BUFFER_SIZE - 1)

\* the slots that hold valid entries: Det_BufferEntryCount of them, from slot 0
\* until the buffer is full, all of them afterwards
ValidSlots(cnt) == IF cnt < DET_MAX_ERROR_BUFFER_SIZE THEN 0 .. (cnt - 1) ELSE Slots

Stored(sig) ==
    \E i \in ValidSlots(Det_BufferEntryCount) : Sig(Det_ErrorBuffer[i]) = sig

Min(S) == CHOOSE x \in S : \A y \in S : x <= y

(***************************************************************************)
(* Local functions of det.c.                                               *)
(***************************************************************************)
\* mutation of Det_IsErrorFiltered: the per-module entry is never consulted
Det_IsErrorFiltered_GlobalOnly(ModuleId, Severity) == Severity < Det_GlobalFilter

\* mutation of Det_IsErrorFiltered: a report at the threshold is dropped too
Det_IsErrorFiltered_Inclusive(ModuleId, Severity) ==
    LET min_severity ==
            IF ModuleId < DET_MAX_MODULE_COUNT /\ Det_Filters[ModuleId].is_configured
            THEN Det_Filters[ModuleId].min_severity
            ELSE Det_GlobalFilter
    IN  Severity <= min_severity

\* Det_IsErrorFiltered: TRUE when the report is to be suppressed
Det_IsErrorFiltered(ModuleId, Severity) ==
    LET min_severity ==
            IF ModuleId < DET_MAX_MODULE_COUNT /\ Det_Filters[ModuleId].is_configured
            THEN Det_Filters[ModuleId].min_severity
            ELSE Det_GlobalFilter
    IN  Severity < min_severity

\* The index the dedup scan of Det_AddToBuffer computes at step i, for write
\* index w.  Both operands are uint32: at i = w the first branch is taken and
\* w - i - 1 wraps to 0xFFFFFFFF (written -1 here), an index outside the array.
ScanIdx(w, i) ==
    IF w >= i THEN w - i - 1 ELSE DET_MAX_ERROR_BUFFER_SIZE + w - i - 1

\* The outcome of the four-field comparison at step i.  A read outside the
\* array is undefined behaviour: it compares equal or not (oob), whatever
\* the memory beside the array holds.
ScanMatch(i, sig, oob) ==
    LET idx == ScanIdx(Det_BufferWriteIndex, i)
    IN  IF idx \in Slots THEN Sig(Det_ErrorBuffer[idx]) = sig ELSE oob

\* mutation of NextWriteIndex: the wrap test is > instead of >=
NextWriteIndex_OffByOne(w) == IF w + 1 > DET_MAX_ERROR_BUFFER_SIZE THEN 0 ELSE w + 1

\* the write index after an insertion: advanced, circular
NextWriteIndex(w) == IF w + 1 >= DET_MAX_ERROR_BUFFER_SIZE THEN 0 ELSE w + 1

\* mutation of NextEntryCount: a full store counts from one again
NextEntryCount_Restarts(cnt) == IF cnt < DET_MAX_ERROR_BUFFER_SIZE THEN cnt + 1 ELSE 1

\* the entry count after an insertion: capped at the buffer size
NextEntryCount(cnt) == IF cnt < DET_MAX_ERROR_BUFFER_SIZE THEN cnt + 1 ELSE cnt

\* mutation of Det_GetTimestamp: the counter is returned and left as it is
Det_GetTimestamp_NoIncrement ==
    [value |-> timestamp_counter, counter |-> timestamp_counter]

\* Det_GetTimestamp: the value it returns and the static counter it leaves
Det_GetTimestamp ==
    [value |-> timestamp_counter, counter |-> timestamp_counter + 1]

\* Det_AddToBuffer: the buffer, indices, statistics and timestamp counter it
\* leaves; found: an entry compared equal; evict: a valid entry was overwritten;
\* ins: an entry was written at the write index
Det_AddToBuffer(sig, oob) ==
    LET hits == { i \in 0 .. (Det_BufferEntryCount - 1) : ScanMatch(i, sig, oob) }
    IN  IF hits # {}
        THEN LET idx == ScanIdx(Det_BufferWriteIndex, Min(hits))
             IN  [buf   |-> IF idx \in Slots
                            THEN [Det_ErrorBuffer EXCEPT
                                     ![idx].occurrences = @ + 1,
                                     ![idx].timestamp = Det_GetTimestamp.value]
                            \* the two writes land outside the array
                            ELSE Det_ErrorBuffer,
                  widx  |-> Det_BufferWriteIndex,
                  cnt   |-> Det_BufferEntryCount,
                  stats |-> Det_Statistics,
                  ts    |-> Det_GetTimestamp.counter,
                  found |-> TRUE,
                  evict |-> FALSE,
                  ins   |-> FALSE]
        ELSE LET wrap == Det_BufferWriteIndex + 1 >= DET_MAX_ERROR_BUFFER_SIZE
             IN  [buf   |-> [Det_ErrorBuffer EXCEPT
                                ![Det_BufferWriteIndex] =
                                    Entry(sig, DET_SEVERITY_ERROR, Det_GetTimestamp.value, 1)],
                  widx  |-> NextWriteIndex(Det_BufferWriteIndex),
                  cnt   |-> NextEntryCount(Det_BufferEntryCount),
                  stats |-> [Det_Statistics EXCEPT
                                !.buffer_overflows = IF wrap THEN @ + 1 ELSE @,
                                !.unique_errors = @ + 1],
                  ts    |-> Det_GetTimestamp.counter,
                  found |-> FALSE,
                  evict |-> Det_BufferWriteIndex \in ValidSlots(Det_BufferEntryCount),
                  ins   |-> TRUE]

\* Det_InvokeCallbacks: the observer calls made, in order
RECURSIVE CallsFrom(_, _)
CallsFrom(i, sig) ==
    IF i >= Det_CallbackCount THEN <<>>
    ELSE (IF Det_Callbacks[i] # NULL_PTR THEN << <<Det_Callbacks[i], sig>> >> ELSE <<>>)
         \o CallsFrom(i + 1, sig)

\* mutation of Det_InvokeCallbacks: the loop starts at the second entry
Det_InvokeCallbacks_FromSecond(sig) == CallsFrom(1, sig)

Det_InvokeCallbacks(sig) == CallsFrom(0, sig)

\* The store as it stands, in the shape Det_AddToBuffer returns
Unchanged ==
    [buf |-> Det_ErrorBuffer, widx |-> Det_BufferWriteIndex, cnt |-> Det_BufferEntryCount,
     stats |-> Det_Statistics, ts |-> timestamp_counter, found |-> FALSE, evict |-> FALSE,
     ins |-> FALSE]

\* mutation of ReportAllowed: reports pass once Det_Init has run
ReportAllowed_Initialized == Det_State # DET_STATE_UNINIT

\* the lifecycle check of Det_ReportError
ReportAllowed == Det_State = DET_STATE_STARTED

\* Det_ReportError run to completion by one context: its return value, the
\* store it leaves and the observer calls it makes
ReportErrorResult(sig, oob) ==
    IF ~ReportAllowed
    THEN [ret |-> E_NOT_OK, kind |-> "rejected", st |-> Unchanged, calls |-> <<>>]
    ELSE IF Det_IsErrorFiltered(sig[1], DET_SEVERITY_ERROR)
    THEN [ret |-> E_OK, kind |-> "suppressed",
          st |-> [Unchanged EXCEPT !.stats.suppressed_by_filter = @ + 1],
          calls |-> <<>>]
    ELSE LET a == Det_AddToBuffer(sig, oob)
         IN  [ret |-> E_OK, kind |-> "accepted",
              st |-> [a EXCEPT !.stats.total_errors = @ + 1, !.stats.errors = @ + 1],
              calls |-> Det_InvokeCallbacks(sig)]

\* mutation of ClassCounted: the two class counters are taken for each other
ClassCounted_Swapped(r, class) ==
    IF class = "none" \/ r.ret # E_OK THEN r.st.stats
    ELSE IF class = "runtime" THEN [r.st.stats EXCEPT !.transient_faults = @ + 1]
    ELSE [r.st.stats EXCEPT !.runtime_errors = @ + 1]

\* mutation of ClassCounted: the wrapper counts the report in total_errors again
ClassCounted_TotalTwice(r, class) ==
    IF class = "none" \/ r.ret # E_OK THEN r.st.stats
    ELSE IF class = "runtime"
    THEN [r.st.stats EXCEPT !.runtime_errors = @ + 1, !.total_errors = @ + 1]
    ELSE [r.st.stats EXCEPT !.transient_faults = @ + 1, !.total_errors = @ + 1]

\* mutation of ClassCounted: a transient fault is taken off runtime_errors
ClassCounted_TakenOff(r, class) ==
    IF r.ret # E_OK \/ class = "none" THEN r.st.stats
    ELSE IF class = "runtime"
    THEN [r.st.stats EXCEPT !.runtime_errors = @ + 1]
    ELSE [r.st.stats EXCEPT !.transient_faults = @ + 1,
                            !.runtime_errors = IF @ > 0 THEN @ - 1 ELSE @]

\* The statistics after the class counter of Det_ReportRuntimeError or
\* Det_ReportTransientFault: incremented when Det_ReportError returned E_OK
ClassCounted(r, class) ==
    IF class = "none" \/ r.ret # E_OK THEN r.st.stats
    ELSE IF class = "runtime" THEN [r.st.stats EXCEPT !.runtime_errors = @ + 1]
    ELSE [r.st.stats EXCEPT !.transient_faults = @ + 1]

\* the buffer as Det_ClearErrors leaves it: signature fields stay
ClearedBuffer ==
    [i \in Slots |-> [Det_ErrorBuffer[i] EXCEPT
                          !.occurrences = 0, !.timestamp = DET_TIMESTAMP_INVALID]]

ReportOps == {"Det_ReportError", "Det_ReportRuntimeError", "Det_ReportTransientFault"}

(***************************************************************************)
(* Initial state: the file-scope statics as the C start-up code leaves     *)
(* them, no operation running.                                             *)
(***************************************************************************)
Init ==
    /\ Det_State = DET_STATE_UNINIT
    /\ Det_ErrorBuffer = [i \in Slots |-> Entry(<<0, 0, 0, 0>>, DET_SEVERITY_WARNING, 0, 0)]
    /\ Det_BufferWriteIndex = 0
    /\ Det_BufferEntryCount = 0
    /\ Det_Callbacks = [i \in 0 .. (DET_MAX_CALLBACKS - 1) |-> NULL_PTR]
    /\ Det_CallbackCount = 0
    /\ Det_Statistics = ZeroStatistics
    /\ Det_Filters = [m \in FilterIndex |->
                         [min_severity |-> DET_SEVERITY_WARNING, is_configured |-> FALSE]]
    /\ Det_GlobalFilter = DET_SEVERITY_WARNING
    /\ Det_BufferLock = [lock |-> 0, owner_core |-> 0]
    /\ timestamp_counter = 0
    /\ pc = [c \in Contexts |-> "idle"]
    /\ local = [c \in Contexts |-> NoLocal]
    /\ nops = 0
    /\ nsteps = 0
    /\ lastOp = [op |-> "none", arg |-> <<>>]
    /\ lastRet = E_OK
    /\ notified = <<>>
    /\ out = NoOut
    /\ runLen = 0
    /\ runFresh = FALSE
    /\ trail = NoTrail
    /\ evicted = 0
    /\ configured = NoneConfigured
    /\ inserted = <<>>
    /\ teardown = NoTeardown
    /\ history = NoHistory

(***************************************************************************)
(* The API, each call run to completion by a single context.               *)
(***************************************************************************)
DefaultFilters ==
    /\ Det_GlobalFilter = DET_SEVERITY_WARNING
    /\ \A m \in FilterIndex : ~Det_Filters[m].is_configured

\* the module holds something a teardown has to clear
Dirty ==
    \/ Det_BufferEntryCount > 0
    \/ Det_CallbackCount > 0
    \/ Det_Statistics # ZeroStatistics
    \/ ~DefaultFilters

\* the teardown record after a call of op
Teardown(op) ==
    IF op = "Det_DeInit" THEN [stage |-> 1, dirty |-> Dirty]
    ELSE IF op = "Det_Init" /\ teardown.stage = 1 THEN [teardown EXCEPT !.stage = 2]
    ELSE IF op = "Det_Start" /\ teardown.stage = 2 THEN [teardown EXCEPT !.stage = 3]
    ELSE NoTeardown

\* the history record after a call of op with arguments arg that returns ret
History(op, arg, ret) ==
    LET when == IF Det_State = DET_STATE_UNINIT THEN "early" ELSE "live"
    IN  IF op = "Det_Init" /\ Det_State = DET_STATE_UNINIT
        THEN [NoHistory EXCEPT !.discarded = history.early]
        ELSE IF op = "Det_DeInit" /\ Det_State # DET_STATE_UNINIT
        THEN NoHistory
        ELSE IF op = "Det_RegisterCallback" /\ ret = E_OK
        THEN [history EXCEPT ![when].observers = @ \cup {arg[1]}]
        ELSE IF op = "Det_SetFilter" /\ ret = E_OK
        THEN [history EXCEPT ![when].keys = @ \cup {arg[1]}]
        ELSE history

\* what every call records about itself
Called(op, arg, ret, calls, o) ==
    /\ nsteps < MaxCalls
    /\ nsteps' = nsteps + 1
    /\ teardown' = Teardown(op)
    /\ history' = History(op, arg, ret)
    /\ lastOp' = [op |-> op, arg |-> arg]
    /\ lastRet' = ret
    /\ notified' = calls
    /\ out' = o

\* what a call that only reads the module's state records about itself; such
\* calls leave the module as it is and are not counted against MaxCalls
Queried(op, arg, ret, o) ==
    /\ nsteps' = nsteps
    /\ teardown' = NoTeardown
    /\ history' = history
    /\ lastOp' = [op |-> op, arg |-> arg]
    /\ lastRet' = ret
    /\ notified' = <<>>
    /\ out' = o

NoRun == runLen' = 0 /\ runFresh' = FALSE

\* the trail of a store just emptied
FreshTrail == [valid |-> DefaultFilters, sigs |-> <<>>]

\* the store, statistics and timestamp counter take the values of st
Commit(st, stats) ==
    /\ Det_ErrorBuffer' = st.buf
    /\ Det_BufferWriteIndex' = st.widx
    /\ Det_BufferEntryCount' = st.cnt
    /\ Det_Statistics' = stats
    /\ timestamp_counter' = st.ts
    /\ evicted' = IF st.evict THEN evicted + 1 ELSE evicted
    /\ inserted' = IF st.ins
                   THEN Append(Without(inserted, Det_BufferWriteIndex), Det_BufferWriteIndex)
                   ELSE inserted

\* mutation of AlreadyInitialized: only Started counts as initialised
AlreadyInitialized_StartedOnly == Det_State = DET_STATE_STARTED

\* the test Det_Init makes before it initialises anything
AlreadyInitialized == Det_State # DET_STATE_UNINIT

\* mutation of InitialFilters: the table is left as it is
InitialFilters_Kept == Det_Filters

\* Det_Filters as Det_Init sets it: report everything
InitialFilters ==
    [m \in FilterIndex |-> [min_severity |-> DET_SEVERITY_WARNING, is_configured |-> FALSE]]

\* mutation of InitialRegistry: the registry is left as it is
InitialRegistry_Kept == [callbacks |-> Det_Callbacks, count |-> Det_CallbackCount]

\* Det_Callbacks and Det_CallbackCount as Det_Init sets them: no observer
InitialRegistry ==
    [callbacks |-> [i \in 0 .. (DET_MAX_CALLBACKS - 1) |-> NULL_PTR], count |-> 0]

Det_Init ==
    /\ IF AlreadyInitialized
       THEN UNCHANGED <<progvars, evicted, trail, configured, inserted>>
       ELSE /\ trail' = NoTrail
            /\ configured' = NoneConfigured
            /\ inserted' = <<>>
            /\ Det_ErrorBuffer' =
                   [i \in Slots |->
                       Entry(<<0, 0, 0, 0>>, DET_SEVERITY_WARNING, DET_TIMESTAMP_INVALID, 0)]
            /\ Det_BufferWriteIndex' = 0
            /\ Det_BufferEntryCount' = 0
            /\ Det_Callbacks' = InitialRegistry.callbacks
            /\ Det_CallbackCount' = InitialRegistry.count
            /\ Det_Statistics' = ZeroStatistics
            /\ Det_Filters' = InitialFilters
            /\ Det_GlobalFilter' = DET_SEVERITY_WARNING
            /\ Det_BufferLock' = [lock |-> 0, owner_core |-> 0]
            /\ Det_State' = DET_STATE_INIT
            /\ evicted' = 0
            /\ UNCHANGED timestamp_counter
    /\ Called("Det_Init", <<>>, E_OK, <<>>, NoOut)
    /\ NoRun
    /\ UNCHANGED mcvars

Det_ClearErrors ==
    /\ Det_ErrorBuffer' = ClearedBuffer
    /\ Det_BufferWriteIndex' = 0
    /\ Det_BufferEntryCount' = 0
    /\ Det_Statistics' = ZeroStatistics
    /\ evicted' = 0
    /\ trail' = IF Det_State = DET_STATE_STARTED THEN FreshTrail ELSE trail
    /\ inserted' = <<>>
    /\ Called("Det_ClearErrors", <<>>, E_OK, <<>>, NoOut)
    /\ NoRun
    /\ UNCHANGED configured
    /\ UNCHANGED <<Det_State, Det_Callbacks, Det_CallbackCount, Det_Filters,
                   Det_GlobalFilter, Det_BufferLock, timestamp_counter, mcvars>>

Det_DeInit ==
    /\ IF Det_State = DET_STATE_UNINIT
       THEN UNCHANGED <<progvars, evicted, trail, inserted>>
       ELSE /\ trail' = NoTrail
            /\ inserted' = <<>>
            /\ Det_ErrorBuffer' = ClearedBuffer
            /\ Det_BufferWriteIndex' = 0
            /\ Det_BufferEntryCount' = 0
            /\ Det_Statistics' = ZeroStatistics
            /\ Det_CallbackCount' = 0
            /\ Det_State' = DET_STATE_UNINIT
            /\ evicted' = 0
            /\ UNCHANGED <<Det_Callbacks, Det_Filters, Det_GlobalFilter, Det_BufferLock,
                           timestamp_counter>>
    /\ Called("Det_DeInit", <<>>, E_OK, <<>>, NoOut)
    /\ NoRun
    /\ UNCHANGED <<configured, mcvars>>

\* mutation of StartAllowed: Det_Start also starts an uninitialised module
StartAllowed_Uninit == Det_State # DET_STATE_STARTED

\* the test Det_Start makes: the module is initialised and not yet started
StartAllowed == Det_State = DET_STATE_INIT

Det_Start ==
    /\ Det_State' = IF StartAllowed THEN DET_STATE_STARTED ELSE Det_State
    /\ trail' = IF StartAllowed THEN FreshTrail ELSE trail
    /\ Called("Det_Start", <<>>, E_OK, <<>>, NoOut)
    /\ NoRun
    /\ UNCHANGED <<Det_ErrorBuffer, Det_BufferWriteIndex, Det_BufferEntryCount,
                   Det_Callbacks, Det_CallbackCount, Det_Statistics, Det_Filters,
                   Det_GlobalFilter, Det_BufferLock, timestamp_counter, evicted,
                   configured, inserted, mcvars>>

\* the three report operations: class is "none", "runtime" or "transient"
Report(op, class, sig, oob) ==
    LET r == ReportErrorResult(sig, oob)
        cont == runLen > 0 /\ lastOp.op \in ReportOps /\ lastOp.arg = sig
    IN  /\ Commit(r.st, ClassCounted(r, class))
        /\ Called(op, sig, r.ret, r.calls, NoOut)
        /\ runLen' = IF r.kind = "accepted" THEN (IF cont THEN runLen + 1 ELSE 1) ELSE 0
        /\ runFresh' = IF r.kind = "accepted"
                       THEN (IF cont THEN runFresh ELSE ~Stored(sig))
                       ELSE FALSE
        /\ trail' = IF r.kind # "rejected" /\ trail.valid
                     THEN [trail EXCEPT !.sigs = Append(@, sig)]
                     ELSE trail
        /\ UNCHANGED <<Det_State, Det_Callbacks, Det_CallbackCount, Det_Filters,
                       Det_GlobalFilter, Det_BufferLock, configured, mcvars>>

Det_ReportError(sig, oob) == Report("Det_ReportError", "none", sig, oob)

Det_ReportRuntimeError(sig, oob) == Report("Det_ReportRuntimeError", "runtime", sig, oob)

Det_ReportTransientFault(sig, oob) ==
    Report("Det_ReportTransientFault", "transient", sig, oob)

\* a report DET makes about itself, guarded in the source by Det_State == STARTED
SelfReport(sig, oob) ==
    IF Det_State = DET_STATE_STARTED
    THEN ReportErrorResult(sig, oob)
    ELSE [ret |-> E_NOT_OK, kind |-> "rejected", st |-> Unchanged, calls |-> <<>>]

\* output pointers: NULL_PTR or the address of a caller's object
Pointers == {NULL_PTR, 1}

Det_GetVersionInfo(versioninfo, oob) ==
    LET sig == SelfSig(DET_GET_VERSION_INFO_API_ID, DET_E_PARAM_POINTER)
        r == SelfReport(sig, oob)
    IN  /\ IF versioninfo = NULL_PTR
           THEN /\ Commit(r.st, r.st.stats)
                /\ trail' = IF r.kind = "rejected" THEN trail ELSE NoTrail
                /\ Called("Det_GetVersionInfo", <<versioninfo>>, E_OK, r.calls, NoOut)
           ELSE /\ UNCHANGED <<Det_ErrorBuffer, Det_BufferWriteIndex, Det_BufferEntryCount,
                               Det_Statistics, timestamp_counter, evicted, trail,
                               inserted>>
                /\ Queried("Det_GetVersionInfo", <<versioninfo>>, E_OK,
                          [vendorID |-> DET_VENDOR_ID, moduleID |-> DET_MODULE_ID,
                           instanceID |-> DET_INSTANCE_ID,
                           sw_major_version |-> DET_SW_MAJOR_VERSION,
                           sw_minor_version |-> DET_SW_MINOR_VERSION,
                           sw_patch_version |-> DET_SW_PATCH_VERSION])
        /\ NoRun
        /\ UNCHANGED <<Det_State, Det_Callbacks, Det_CallbackCount, Det_Filters,
                       Det_GlobalFilter, Det_BufferLock, configured, mcvars>>

Det_GetStatistics(statistics) ==
    /\ IF statistics = NULL_PTR \/ Det_State = DET_STATE_UNINIT
       THEN Queried("Det_GetStatistics", <<statistics>>, E_NOT_OK, NoOut)
       ELSE Queried("Det_GetStatistics", <<statistics>>, E_OK, Det_Statistics)
    /\ NoRun
    /\ UNCHANGED <<progvars, evicted, trail, configured, inserted, mcvars>>

\* mutation of RegistryFull: the test is > instead of >=
RegistryFull_OffByOne == Det_CallbackCount > DET_MAX_CALLBACKS

\* the capacity check of Det_RegisterCallback
RegistryFull == Det_CallbackCount >= DET_MAX_CALLBACKS

\* mutation of CallbackRegistered: the loop starts at the second entry
CallbackRegistered_SkipsFirst(CallbackFunc) ==
    \E i \in 1 .. (Det_CallbackCount - 1) : Det_Callbacks[i] = CallbackFunc

\* the duplicate check of Det_RegisterCallback: its loop finds CallbackFunc
CallbackRegistered(CallbackFunc) ==
    \E i \in 0 .. (Det_CallbackCount - 1) : Det_Callbacks[i] = CallbackFunc

Det_RegisterCallback(CallbackFunc, oob) ==
    LET Fail(ErrorId) ==
            LET sig == SelfSig(DET_REGISTER_CALLBACK_API_ID, ErrorId)
                r == SelfReport(sig, oob)
            IN  /\ Commit(r.st, r.st.stats)
                /\ trail' = IF r.kind = "rejected" THEN trail ELSE NoTrail
                /\ Called("Det_RegisterCallback", <<CallbackFunc>>, E_NOT_OK, r.calls, NoOut)
                /\ UNCHANGED <<Det_Callbacks, Det_CallbackCount>>
    IN  /\ IF CallbackFunc = NULL_PTR
           THEN Fail(DET_E_PARAM_POINTER)
           ELSE IF RegistryFull
           THEN Fail(DET_E_MAX_CALLBACKS_REACHED)
           ELSE IF DET_UNIQUE_CALLBACK_CHECK /\ CallbackRegistered(CallbackFunc)
           THEN Fail(DET_E_CALLBACK_DUPLICATE)
           ELSE /\ Det_Callbacks' = [Det_Callbacks EXCEPT ![Det_CallbackCount] = CallbackFunc]
                /\ Det_CallbackCount' = Det_CallbackCount + 1
                /\ Called("Det_RegisterCallback", <<CallbackFunc>>, E_OK, <<>>, NoOut)
                /\ UNCHANGED <<Det_ErrorBuffer, Det_BufferWriteIndex, Det_BufferEntryCount,
                               Det_Statistics, timestamp_counter, evicted, trail,
                               inserted>>
        /\ NoRun
        /\ UNCHANGED <<Det_State, Det_Filters, Det_GlobalFilter, Det_BufferLock,
                       configured, mcvars>>

\* mutation of BufferEmpty: the test reads the write index, not the count
BufferEmpty_ByIndex == Det_BufferWriteIndex = 0

\* the emptiness check of Det_GetLastError
BufferEmpty == Det_BufferEntryCount = 0

\* the slot Det_GetLastError copies out: the one before the write index
LastErrorIndex ==
    IF Det_BufferWriteIndex = 0
    THEN DET_MAX_ERROR_BUFFER_SIZE - 1
    ELSE Det_BufferWriteIndex - 1

Det_GetLastError(errorEntry) ==
    /\ IF errorEntry = NULL_PTR \/ BufferEmpty
       THEN Queried("Det_GetLastError", <<errorEntry>>, E_NOT_OK, NoOut)
       ELSE Queried("Det_GetLastError", <<errorEntry>>, E_OK, Det_ErrorBuffer[LastErrorIndex])
    /\ NoRun
    /\ UNCHANGED <<progvars, evicted, trail, configured, inserted, mcvars>>

\* mutation of start_idx: the walk always starts at the write index
start_idx_WriteIndex == Det_BufferWriteIndex

\* start_idx of Det_IterateErrors: the slot of the oldest entry
start_idx ==
    IF Det_BufferEntryCount < DET_MAX_ERROR_BUFFER_SIZE THEN 0 ELSE Det_BufferWriteIndex

\* Det_IterateErrors: the entries handed to the visitor, in order; the count returned
Det_IterateErrors(callback) ==
    LET visits == [i \in 1 .. Det_BufferEntryCount |->
                      Det_ErrorBuffer[(start_idx + (i - 1)) % DET_MAX_ERROR_BUFFER_SIZE]]
    IN  /\ IF callback = NULL_PTR \/ Det_BufferEntryCount = 0
           THEN Queried("Det_IterateErrors", <<callback>>, 0, NoOut)
           ELSE Queried("Det_IterateErrors", <<callback>>, Len(visits), visits)
        /\ NoRun
        /\ UNCHANGED <<progvars, evicted, trail, configured, inserted, mcvars>>

\* mutation of SeverityInvalid: the value next to Fatal is let through
SeverityInvalid_OffByOne(MinSeverity) == MinSeverity > DET_SEVERITY_FATAL + 1

\* the severity check of Det_SetFilter
SeverityInvalid(MinSeverity) == MinSeverity > DET_SEVERITY_FATAL

Det_SetFilter(ModuleId, MinSeverity) ==
    /\ IF SeverityInvalid(MinSeverity)
       THEN /\ UNCHANGED <<Det_Filters, Det_GlobalFilter>>
            /\ Called("Det_SetFilter", <<ModuleId, MinSeverity>>, E_NOT_OK, <<>>, NoOut)
       ELSE IF ModuleId = DET_MODULE_ID_GLOBAL_FILTER
       THEN /\ Det_GlobalFilter' = MinSeverity
            /\ UNCHANGED Det_Filters
            /\ Called("Det_SetFilter", <<ModuleId, MinSeverity>>, E_OK, <<>>, NoOut)
       ELSE IF ModuleId < DET_MAX_MODULE_COUNT
       THEN /\ Det_Filters' = [Det_Filters EXCEPT
                                  ![ModuleId] = [min_severity |-> MinSeverity,
                                                 is_configured |-> TRUE]]
            /\ UNCHANGED Det_GlobalFilter
            /\ Called("Det_SetFilter", <<ModuleId, MinSeverity>>, E_OK, <<>>, NoOut)
       ELSE /\ UNCHANGED <<Det_Filters, Det_GlobalFilter>>
            /\ Called("Det_SetFilter", <<ModuleId, MinSeverity>>, E_NOT_OK, <<>>, NoOut)
    /\ configured' = IF lastRet' = E_OK
                     THEN [configured EXCEPT
                              ![ModuleId] = [set |-> TRUE, level |-> MinSeverity]]
                     ELSE configured
    /\ trail' = IF ~SeverityInvalid(MinSeverity)
                    /\ (ModuleId = DET_MODULE_ID_GLOBAL_FILTER
                        \/ ModuleId < DET_MAX_MODULE_COUNT)
                 THEN NoTrail
                 ELSE trail
    /\ NoRun
    /\ UNCHANGED <<Det_State, Det_ErrorBuffer, Det_BufferWriteIndex, Det_BufferEntryCount,
                   Det_Callbacks, Det_CallbackCount, Det_Statistics, Det_BufferLock,
                   timestamp_counter, evicted, inserted, mcvars>>

(***************************************************************************)
(* Single-context executions: any sequence of at most MaxCalls API calls.  *)
(***************************************************************************)
\* what a comparison outside the array may yield; where the scan stays inside
\* the array the choice has no effect and one value stands for both
OobOutcomes ==
    IF \E i \in 0 .. (Det_BufferEntryCount - 1) :
           ScanIdx(Det_BufferWriteIndex, i) \notin Slots
    THEN BOOLEAN
    ELSE {FALSE}

Next ==
    \/ Det_Init
    \/ Det_DeInit
    \/ Det_Start
    \/ Det_ClearErrors
    \/ \E sig \in CallerSigs, oob \in OobOutcomes : Det_ReportError(sig, oob)
    \/ \E sig \in CallerSigs, oob \in OobOutcomes : Det_ReportRuntimeError(sig, oob)
    \/ \E sig \in CallerSigs, oob \in OobOutcomes : Det_ReportTransientFault(sig, oob)
    \/ \E p \in Pointers, oob \in OobOutcomes : Det_GetVersionInfo(p, oob)
    \/ \E p \in Pointers : Det_GetStatistics(p)
    \/ \E f \in Observers \cup {NULL_PTR}, oob \in OobOutcomes : Det_RegisterCallback(f, oob)
    \/ \E p \in Pointers : Det_GetLastError(p)
    \/ \E f \in Pointers : Det_IterateErrors(f)
    \/ \E m \in FilterArgs, s \in SeverityArgs : Det_SetFilter(m, s)

Spec == Init /\ [][Next]_vars

(***************************************************************************)
(* Two contexts (cores, or task and interrupt) calling the operations the  *)
(* header documents as safe with DET_MULTICORE_SUPPORT: the three reports, *)
(* Det_GetStatistics, Det_GetLastError, and Det_ClearErrors, which takes   *)
(* the same lock.  A step is what one context does between two accesses    *)
(* to the lock word; the statements in between are taken as one step,      *)
(* except total_errors++, which is a load and a store: the load belongs    *)
(* to the step of Det_AddToBuffer, the store to the step after it, so that *)
(* two contexts inside the region at once can overwrite each other.        *)
(* pc: "idle", "acquire" (inside Det_AcquireLock), "body" and "stats"      *)
(* (between Det_AcquireLock and Det_ReleaseLock), "release" (about to run  *)
(* Det_ReleaseLock), "callbacks" (Det_InvokeCallbacks), "class" (back in   *)
(* Det_ReportRuntimeError or Det_ReportTransientFault).                    *)
(***************************************************************************)
McSigs == { <<1, 0, 1, 1>>, <<2, 0, 1, 1>>, <<2, 0, 2, 1>> }

\* single-threaded setup before the contexts start: Det_Init,
\* Det_RegisterCallback(1), Det_SetFilter(1, DET_SEVERITY_FATAL), Det_Start
InitMC ==
    /\ Det_State = DET_STATE_STARTED
    /\ Det_ErrorBuffer =
           [i \in Slots |->
               Entry(<<0, 0, 0, 0>>, DET_SEVERITY_WARNING, DET_TIMESTAMP_INVALID, 0)]
    /\ Det_BufferWriteIndex = 0
    /\ Det_BufferEntryCount = 0
    /\ Det_Callbacks = [i \in 0 .. (DET_MAX_CALLBACKS - 1) |-> IF i = 0 THEN 1 ELSE NULL_PTR]
    /\ Det_CallbackCount = 1
    /\ Det_Statistics = ZeroStatistics
    /\ Det_Filters = [m \in FilterIndex |->
                         IF m = 1
                         THEN [min_severity |-> DET_SEVERITY_FATAL, is_configured |-> TRUE]
                         ELSE [min_severity |-> DET_SEVERITY_WARNING,
                               is_configured |-> FALSE]]
    /\ Det_GlobalFilter = DET_SEVERITY_WARNING
    /\ Det_BufferLock = [lock |-> 0, owner_core |-> 0]
    /\ timestamp_counter = 0
    /\ pc = [c \in Contexts |-> "idle"]
    /\ local = [c \in Contexts |-> NoLocal]
    /\ nops = 0
    /\ nsteps = 0
    /\ lastOp = [op |-> "none", arg |-> <<>>]
    /\ lastRet = E_OK
    /\ notified = <<>>
    /\ out = NoOut
    /\ runLen = 0
    /\ runFresh = FALSE
    /\ trail = NoTrail
    /\ evicted = 0
    /\ configured = [NoneConfigured EXCEPT
                         ![1] = [set |-> TRUE, level |-> DET_SEVERITY_FATAL]]
    /\ inserted = <<>>
    /\ teardown = NoTeardown
    /\ history = [NoHistory EXCEPT !.live = [observers |-> {1}, keys |-> {1}]]

\* mutation of AfterReport: a Det_ReportError that is done goes on to
\* Det_AcquireLock
AfterReport_Acquire(op) == IF op = "Det_ReportError" THEN "acquire" ELSE "class"

\* where a report continues once Det_ReportError has returned
AfterReport(op) == IF op = "Det_ReportError" THEN "idle" ELSE "class"

Goto(c, label) == pc' = [pc EXCEPT ![c] = label]

\* mutation of Det_AcquireLock: a failed attempt does not count down
Det_AcquireLock_NoCountdown(l, timeout) ==
    IF timeout > 0
    THEN IF l = 0
         THEN [lock |-> 1, timeout |-> timeout, attempt |-> 1, done |-> TRUE]
         ELSE [lock |-> l, timeout |-> timeout, attempt |-> 1, done |-> FALSE]
    ELSE [lock |-> 0, timeout |-> timeout, attempt |-> 0, done |-> TRUE]

\* mutation of Det_AcquireLock: after the last pass the lock word is left as
\* it is
Det_AcquireLock_KeepsLock(l, timeout) ==
    IF timeout > 0
    THEN IF l = 0
         THEN [lock |-> 1, timeout |-> timeout, attempt |-> 1, done |-> TRUE]
         ELSE [lock |-> l, timeout |-> timeout - 1, attempt |-> 1, done |-> FALSE]
    ELSE [lock |-> l, timeout |-> timeout, attempt |-> 0, done |-> TRUE]

\* One pass of the loop of Det_AcquireLock on lock word l with `timeout` passes
\* left, or, with none left, the statements after the loop.
\* done: Det_AcquireLock returns
Det_AcquireLock(l, timeout) ==
    IF timeout > 0
    THEN IF l = 0
         THEN [lock |-> 1, timeout |-> timeout, attempt |-> 1, done |-> TRUE]
         ELSE [lock |-> l, timeout |-> timeout - 1, attempt |-> 1, done |-> FALSE]
    ELSE [lock |-> 0, timeout |-> timeout, attempt |-> 0, done |-> TRUE]

\* Det_ReleaseLock: the lock word it leaves
Det_ReleaseLock(l) == 0

\* a context calls an operation and runs it up to its Det_AcquireLock, or to
\* its return where it returns before
Call(c, op, sig) ==
    LET l == [op |-> op, sig |-> sig, timeout |-> DET_SPINLOCK_TIMEOUT_US,
              attempts |-> 0, ret |-> E_OK, calls |-> <<>>, out |-> NoOut,
              total_errors |-> 0]
        Reject(label) == /\ local' = [local EXCEPT ![c] = [l EXCEPT !.ret = E_NOT_OK]]
                         /\ Goto(c, label)
                         /\ UNCHANGED Det_Statistics
        Enter == /\ local' = [local EXCEPT ![c] = l]
                 /\ Goto(c, "acquire")
                 /\ UNCHANGED Det_Statistics
    IN  /\ pc[c] = "idle"
        /\ nops < MaxOpsMC
        /\ nops' = nops + 1
        /\ IF op \in ReportOps
           THEN IF ~ReportAllowed
                THEN Reject(AfterReport(op))
                ELSE IF Det_IsErrorFiltered(sig[1], DET_SEVERITY_ERROR)
                THEN /\ Det_Statistics' =
                            [Det_Statistics EXCEPT !.suppressed_by_filter = @ + 1]
                     /\ local' = [local EXCEPT ![c] = l]
                     /\ Goto(c, AfterReport(op))
                ELSE Enter
           ELSE IF op = "Det_GetStatistics"
           THEN IF Det_State = DET_STATE_UNINIT THEN Reject("idle") ELSE Enter
           ELSE IF op = "Det_GetLastError"
           THEN IF BufferEmpty THEN Reject("idle") ELSE Enter
           ELSE Enter
        /\ UNCHANGED <<Det_State, Det_ErrorBuffer, Det_BufferWriteIndex,
                       Det_BufferEntryCount, Det_Callbacks, Det_CallbackCount,
                       Det_Filters, Det_GlobalFilter, Det_BufferLock, timestamp_counter,
                       obsvars>>

Acquire(c) ==
    LET a == Det_AcquireLock(Det_BufferLock.lock, local[c].timeout)
    IN  /\ pc[c] = "acquire"
        /\ Det_BufferLock' = [Det_BufferLock EXCEPT !.lock = a.lock]
        /\ local' = [local EXCEPT ![c].timeout = a.timeout,
                                  ![c].attempts = @ + a.attempt]
        /\ Goto(c, IF a.done THEN "body" ELSE "acquire")
        /\ UNCHANGED <<Det_State, Det_ErrorBuffer, Det_BufferWriteIndex,
                       Det_BufferEntryCount, Det_Callbacks, Det_CallbackCount,
                       Det_Statistics, Det_Filters, Det_GlobalFilter, timestamp_counter,
                       nops, obsvars>>

\* the statements between Det_AcquireLock and Det_ReleaseLock; of a report,
\* the call of Det_AddToBuffer and the load of total_errors++
Body(c) ==
    /\ pc[c] = "body"
    /\ IF local[c].op \in ReportOps
       THEN \E oob \in OobOutcomes :
               LET a == Det_AddToBuffer(local[c].sig, oob)
               IN  /\ Commit(a, a.stats)
                   /\ Goto(c, "stats")
                   /\ local' = [local EXCEPT
                                   ![c].total_errors = a.stats.total_errors]
       ELSE IF local[c].op = "Det_GetStatistics"
       THEN /\ local' = [local EXCEPT ![c].out = Det_Statistics]
            /\ Goto(c, "release")
            /\ UNCHANGED <<Det_ErrorBuffer, Det_BufferWriteIndex, Det_BufferEntryCount,
                           Det_Statistics, timestamp_counter, evicted, inserted>>
       ELSE IF local[c].op = "Det_GetLastError"
       THEN /\ local' = [local EXCEPT ![c].out = Det_ErrorBuffer[LastErrorIndex]]
            /\ Goto(c, "release")
            /\ UNCHANGED <<Det_ErrorBuffer, Det_BufferWriteIndex, Det_BufferEntryCount,
                           Det_Statistics, timestamp_counter, evicted, inserted>>
       ELSE /\ Det_ErrorBuffer' = ClearedBuffer
            /\ Det_BufferWriteIndex' = 0
            /\ Det_BufferEntryCount' = 0
            /\ Det_Statistics' = ZeroStatistics
            /\ evicted' = 0
            /\ inserted' = <<>>
            /\ Goto(c, "release")
            /\ UNCHANGED <<local, timestamp_counter>>
    /\ UNCHANGED <<Det_State, Det_Callbacks, Det_CallbackCount, Det_Filters,
                   Det_GlobalFilter, Det_BufferLock, nops, nsteps, lastOp, lastRet,
                   notified, out, runLen, runFresh, trail, configured, teardown,
                   history>>

\* the store of total_errors++, and errors++, of Det_ReportError
Stats(c) ==
    /\ pc[c] = "stats"
    /\ Det_Statistics' = [Det_Statistics EXCEPT
                              !.total_errors = local[c].total_errors + 1,
                              !.errors = @ + 1]
    \* the loaded value is dead from here on
    /\ local' = [local EXCEPT ![c].total_errors = 0]
    /\ Goto(c, "release")
    /\ UNCHANGED <<Det_State, Det_ErrorBuffer, Det_BufferWriteIndex, Det_BufferEntryCount,
                   Det_Callbacks, Det_CallbackCount, Det_Filters, Det_GlobalFilter,
                   Det_BufferLock, timestamp_counter, nops, obsvars>>

Release(c) ==
    /\ pc[c] = "release"
    /\ Det_BufferLock' = [Det_BufferLock EXCEPT !.lock = Det_ReleaseLock(@)]
    /\ Goto(c, IF local[c].op \in ReportOps THEN "callbacks" ELSE "idle")
    /\ UNCHANGED <<Det_State, Det_ErrorBuffer, Det_BufferWriteIndex, Det_BufferEntryCount,
                   Det_Callbacks, Det_CallbackCount, Det_Statistics, Det_Filters,
                   Det_GlobalFilter, timestamp_counter, local, nops, obsvars>>

Callbacks(c) ==
    /\ pc[c] = "callbacks"
    /\ local' = [local EXCEPT ![c].calls = Det_InvokeCallbacks(local[c].sig)]
    /\ Goto(c, AfterReport(local[c].op))
    /\ UNCHANGED <<progvars, nops, obsvars>>

\* the class counter of Det_ReportRuntimeError and Det_ReportTransientFault
Class(c) ==
    /\ pc[c] = "class"
    /\ Det_Statistics' =
           IF local[c].ret # E_OK THEN Det_Statistics
           ELSE IF local[c].op = "Det_ReportRuntimeError"
           THEN [Det_Statistics EXCEPT !.runtime_errors = @ + 1]
           ELSE [Det_Statistics EXCEPT !.transient_faults = @ + 1]
    /\ Goto(c, "idle")
    /\ UNCHANGED <<Det_State, Det_ErrorBuffer, Det_BufferWriteIndex, Det_BufferEntryCount,
                   Det_Callbacks, Det_CallbackCount, Det_Filters, Det_GlobalFilter,
                   Det_BufferLock, timestamp_counter, local, nops, obsvars>>

Step(c) ==
    \/ \E op \in ReportOps, sig \in McSigs : Call(c, op, sig)
    \/ \E op \in {"Det_GetStatistics", "Det_GetLastError", "Det_ClearErrors"} :
          Call(c, op, NoSig)
    \/ Acquire(c)
    \/ Body(c)
    \/ Stats(c)
    \/ Release(c)
    \/ Callbacks(c)
    \/ Class(c)

NextMC == \E c \in Contexts : Step(c)

SpecMC == InitMC /\ [][NextMC]_vars

\* context 1 keeps running whenever it can; context 2 may stall anywhere,
\* also while it holds the lock
FairSpecMC == SpecMC /\ WF_vars(Step(1))

(***************************************************************************)
(* Properties.                                                             *)
(***************************************************************************)
valid == ValidSlots(Det_BufferEntryCount)

\* the slots that hold signature sig
SlotsOf(sig) == { i \in valid : Sig(Det_ErrorBuffer[i]) = sig }

\* the step is a call of one of the three report operations
ReportStep == nsteps' = nsteps + 1 /\ lastOp'.op \in ReportOps

\* the threshold in force for ModuleId, read off the filter table
EffectiveThreshold(ModuleId) ==
    IF ModuleId \in DOMAIN Det_Filters /\ Det_Filters[ModuleId].is_configured
    THEN Det_Filters[ModuleId].min_severity
    ELSE Det_GlobalFilter

\* the step is a report, made in Started state, that the filter rejects
SuppressedStep ==
    /\ ReportStep
    /\ Det_State = DET_STATE_STARTED
    /\ DET_SEVERITY_ERROR < EffectiveThreshold(lastOp'.arg[1])

\* a context is between its Det_AcquireLock and the end of its Det_ReleaseLock
InRegion(c) == pc[c] \in {"body", "stats", "release"}

\* C1: in every reachable state no two valid slots of the ring store hold
\* the same signature (moduleId, instanceId, apiId, errorId).
C1_OneEntryPerSignature ==
    \A i, j \in valid :
        i # j => Sig(Det_ErrorBuffer[i]) # Sig(Det_ErrorBuffer[j])

\* C2: the valid-entry count never exceeds the capacity and the write cursor
\* always stays in 0 .. N-1.
C2_CapacityBound ==
    /\ Det_BufferEntryCount \in 0 .. DET_MAX_ERROR_BUFFER_SIZE
    /\ Det_BufferWriteIndex \in 0 .. (DET_MAX_ERROR_BUFFER_SIZE - 1)

\* the store is full, the cursor has wrapped and a further insertion has
\* overwritten a valid entry
C2_Witness ==
    /\ Det_BufferEntryCount = DET_MAX_ERROR_BUFFER_SIZE
    /\ Det_Statistics.buffer_overflows >= 1
    /\ evicted >= 1

\* C3: after k accepted reports in a row of a signature that was not stored
\* when the run began, exactly one valid entry holds that signature and its
\* occurrences equal k.
C3_DedupRun ==
    (runLen > 0 /\ runFresh) =>
        /\ Cardinality(SlotsOf(lastOp.arg)) = 1
        /\ \A i \in SlotsOf(lastOp.arg) : Det_ErrorBuffer[i].occurrences = runLen

\* C4: a report operation called while the lifecycle state is not Started
\* returns E_NOT_OK, leaves the ring store, every statistics counter and the
\* callback registry unchanged, and invokes no observer.
C4_LifecycleGating ==
    [][(ReportStep /\ Det_State # DET_STATE_STARTED) =>
          /\ lastRet' = E_NOT_OK
          /\ notified' = <<>>
          /\ UNCHANGED <<Det_ErrorBuffer, Det_BufferWriteIndex, Det_BufferEntryCount,
                         Det_Statistics, Det_Callbacks, Det_CallbackCount,
                         timestamp_counter>>]_vars

\* a report was made in Initialized state, with an observer registered
C4_Witness ==
    /\ lastOp.op \in ReportOps
    /\ Det_State = DET_STATE_INIT
    /\ Det_CallbackCount > 0
    /\ lastRet = E_NOT_OK

\* C5: with multicore support, at most one context at a time is between
\* Det_AcquireLock and Det_ReleaseLock.
C5_MutualExclusion == ~(InRegion(1) /\ InRegion(2))

\* C6: Det_AcquireLock makes at most DET_SPINLOCK_TIMEOUT_US acquisition
\* attempts, and every operation of a context that keeps running returns,
\* also when the other context holds the lock and never releases it.
C6_BoundedAcquire ==
    /\ [](\A c \in Contexts :
              pc[c] # "idle" => local[c].attempts <= DET_SPINLOCK_TIMEOUT_US)
    /\ ((pc[1] # "idle") ~> (pc[1] = "idle"))

\* context 1 has used up its attempts on a lock context 2 holds, and went on
C6_Witness ==
    /\ pc[1] = "body"
    /\ local[1].op \in ReportOps
    /\ local[1].attempts = DET_SPINLOCK_TIMEOUT_US
    /\ local[1].timeout = 0
    /\ InRegion(2)

\* C7: the overflow counter equals the number of valid entries overwritten
\* since the statistics were last reset.
C7_OverflowCountsEvictions == Det_Statistics.buffer_overflows = evicted

C9_Suppression ==
    [][SuppressedStep =>
          /\ UNCHANGED <<Det_ErrorBuffer, Det_BufferWriteIndex, Det_BufferEntryCount,
                         timestamp_counter>>
          /\ notified' = <<>>
          /\ Det_Statistics'.suppressed_by_filter =
                 Det_Statistics.suppressed_by_filter + 1
          /\ lastRet' = E_OK]_vars

\* a report of a module whose own threshold is Fatal was dropped in Started
\* state, with an observer registered
C9_Witness ==
    /\ lastOp.op \in ReportOps
    /\ Det_State = DET_STATE_STARTED
    /\ Det_Filters[lastOp.arg[1]].is_configured
    /\ Det_Filters[lastOp.arg[1]].min_severity = DET_SEVERITY_FATAL
    /\ Det_CallbackCount > 0
    /\ Det_Statistics.suppressed_by_filter = 1
    /\ lastRet = E_OK

\* C10: a report rejected by the severity filter leaves total_errors,
\* unique_errors, runtime_errors, transient_faults and the per-severity
\* counters unchanged, whichever of the three report operations made it.
C10_SuppressedFrame ==
    [][SuppressedStep =>
          /\ Det_Statistics'.total_errors = Det_Statistics.total_errors
          /\ Det_Statistics'.unique_errors = Det_Statistics.unique_errors
          /\ Det_Statistics'.runtime_errors = Det_Statistics.runtime_errors
          /\ Det_Statistics'.transient_faults = Det_Statistics.transient_faults
          /\ Det_Statistics'.warnings = Det_Statistics.warnings
          /\ Det_Statistics'.errors = Det_Statistics.errors
          /\ Det_Statistics'.fatals = Det_Statistics.fatals]_vars

\* source ids: the modules, one beyond Det_Filters[], the sentinel
SourceIds == ModuleIds \cup {DET_MAX_MODULE_COUNT, DET_MODULE_ID_GLOBAL_FILTER}

Severities == DET_SEVERITY_WARNING .. DET_SEVERITY_FATAL

\* the threshold the calls of Det_SetFilter made since initialisation put in
\* force for a source: its own if one was set, the global one otherwise
ThresholdInForce(ModuleId) ==
    IF ModuleId \in FilterIndex /\ configured[ModuleId].set
    THEN configured[ModuleId].level
    ELSE configured[DET_MODULE_ID_GLOBAL_FILTER].level

\* C11: for every source and severity the filter suppresses iff the severity
\* is below the effective threshold: the threshold set for the source since
\* the last initialisation if there is one, the global threshold otherwise;
\* while no threshold has been set nothing is suppressed.
C11_FilterDecision ==
    /\ \A m \in SourceIds, s \in Severities :
           Det_IsErrorFiltered(m, s) <=> (s < ThresholdInForce(m))
    /\ (\A k \in FilterKeys : ~configured[k].set) =>
           \A m \in SourceIds, s \in Severities : ~Det_IsErrorFiltered(m, s)

\* module 1 was given the threshold Fatal and the global threshold was set
\* to Error: both decide, each for its sources
C11_Witness ==
    /\ configured[1].set /\ configured[1].level = DET_SEVERITY_FATAL
    /\ configured[DET_MODULE_ID_GLOBAL_FILTER].set
    /\ configured[DET_MODULE_ID_GLOBAL_FILTER].level = DET_SEVERITY_ERROR
    /\ Det_State = DET_STATE_STARTED
    /\ Det_IsErrorFiltered(1, DET_SEVERITY_ERROR)
    /\ Det_IsErrorFiltered(2, DET_SEVERITY_WARNING)
    /\ ~Det_IsErrorFiltered(2, DET_SEVERITY_ERROR)

\* the step is a report, made in Started state, that the filter lets pass
AcceptedStep ==
    /\ ReportStep
    /\ Det_State = DET_STATE_STARTED
    /\ ~(DET_SEVERITY_ERROR < EffectiveThreshold(lastOp'.arg[1]))

\* C12: every accepted report made in Started state invokes each registered
\* observer exactly once, in registration order, with exactly the
\* (moduleId, instanceId, apiId, errorId) passed to the report operation.
C12_Dispatch ==
    [][AcceptedStep =>
          notified' = [i \in 1 .. Det_CallbackCount |->
                          <<Det_Callbacks[i - 1], lastOp'.arg>>]]_vars

\* observer 2 was registered before observer 1, and a report called both, in
\* that order, with its own signature
C12_Witness ==
    /\ lastOp.op \in ReportOps
    /\ lastRet = E_OK
    /\ Det_CallbackCount = 2
    /\ notified = << <<2, lastOp.arg>>, <<1, lastOp.arg>> >>

\* C13: the observers of a report are invoked only after every store and
\* statistics update that belongs to the report, its runtime or transient
\* class counter included, and only while the reporting context is outside
\* the guarded region: once a context has dispatched, the rest of its
\* operation changes neither the store nor the statistics.
C13_DispatchAfterUpdates ==
    [][\A c \in Contexts :
          /\ (pc[c] = "callbacks" /\ pc'[c] # pc[c]) => ~InRegion(c)
          /\ (pc[c] # "idle" /\ pc'[c] # pc[c] /\ local[c].calls # <<>>) =>
                 UNCHANGED <<Det_ErrorBuffer, Det_BufferWriteIndex,
                             Det_BufferEntryCount, Det_Statistics>>]_vars

\* the step is a call of Det_RegisterCallback
RegisterStep == nsteps' = nsteps + 1 /\ lastOp'.op = "Det_RegisterCallback"

\* the observers in the registry
Registered == { Det_Callbacks[i] : i \in 0 .. (Det_CallbackCount - 1) }

\* C14: the number of registered observers never exceeds DET_MAX_CALLBACKS;
\* with DET_MAX_CALLBACKS observers registered a further Det_RegisterCallback
\* returns E_NOT_OK and leaves the registry as it was.
C14_RegistryBound ==
    /\ [](Det_CallbackCount <= DET_MAX_CALLBACKS)
    /\ [][(RegisterStep /\ Det_CallbackCount = DET_MAX_CALLBACKS) =>
             /\ lastRet' = E_NOT_OK
             /\ UNCHANGED <<Det_Callbacks, Det_CallbackCount>>]_vars

\* the registry is full and a further, new observer was turned away
C14_Witness ==
    /\ lastOp.op = "Det_RegisterCallback"
    /\ lastOp.arg[1] \notin Registered \cup {NULL_PTR}
    /\ lastRet = E_NOT_OK
    /\ Det_CallbackCount = DET_MAX_CALLBACKS

\* C15: Det_RegisterCallback returns E_NOT_OK and leaves the registry
\* unchanged for a null observer and, with the duplicate check built in, for
\* an observer already registered; otherwise, below capacity, it returns E_OK
\* and appends the observer at the end.
C15_Registration ==
    [][RegisterStep =>
          LET f == lastOp'.arg[1]
              refused == f = NULL_PTR \/ (DET_UNIQUE_CALLBACK_CHECK /\ f \in Registered)
          IN  /\ refused =>
                     /\ lastRet' = E_NOT_OK
                     /\ UNCHANGED <<Det_Callbacks, Det_CallbackCount>>
              /\ (~refused /\ Det_CallbackCount < DET_MAX_CALLBACKS) =>
                     /\ lastRet' = E_OK
                     /\ Det_CallbackCount' = Det_CallbackCount + 1
                     /\ Det_Callbacks'[Det_CallbackCount] = f
                     /\ \A i \in 0 .. (Det_CallbackCount - 1) :
                            Det_Callbacks'[i] = Det_Callbacks[i]]_vars

\* observer 1 is registered, the registry has room, and registering
\* observer 1 again was refused
C15_Witness ==
    /\ lastOp.op = "Det_RegisterCallback"
    /\ lastOp.arg[1] = 1
    /\ lastRet = E_NOT_OK
    /\ Det_CallbackCount = 1
    /\ Det_Callbacks[0] = 1

\* 1 if b, else 0
Count(b) == IF b THEN 1 ELSE 0

\* the step wrote a new entry: a slot changed into one with occurrences 1
EntryCreated ==
    \E i \in Slots : /\ Det_ErrorBuffer'[i] # Det_ErrorBuffer[i]
                     /\ Det_ErrorBuffer'[i].occurrences = 1

\* C16: each accepted report increments total_errors and the Error severity
\* counter by exactly 1, unique_errors by 1 iff it created a new store entry,
\* runtime_errors by 1 iff made through Det_ReportRuntimeError and
\* transient_faults by 1 iff made through Det_ReportTransientFault.
C16_AcceptedCounters ==
    [][AcceptedStep =>
          /\ Det_Statistics'.total_errors = Det_Statistics.total_errors + 1
          /\ Det_Statistics'.errors = Det_Statistics.errors + 1
          /\ Det_Statistics'.unique_errors =
                 Det_Statistics.unique_errors + Count(EntryCreated)
          /\ Det_Statistics'.runtime_errors =
                 Det_Statistics.runtime_errors
                     + Count(lastOp'.op = "Det_ReportRuntimeError")
          /\ Det_Statistics'.transient_faults =
                 Det_Statistics.transient_faults
                     + Count(lastOp'.op = "Det_ReportTransientFault")]_vars

\* a runtime error was reported, then the same signature as a transient
\* fault: two reports, one entry, one count in each class
C16_Witness ==
    /\ lastOp.op = "Det_ReportTransientFault"
    /\ Det_Statistics.total_errors = 2
    /\ Det_Statistics.errors = 2
    /\ Det_Statistics.unique_errors = 1
    /\ Det_Statistics.runtime_errors = 1
    /\ Det_Statistics.transient_faults = 1

\* the statistics fields other than the two class counters
CommonCounters(st) ==
    <<st.total_errors, st.unique_errors, st.buffer_overflows, st.warnings, st.errors,
      st.fatals, st.suppressed_by_filter>>

C18_LastErrorIsMostRecent ==
    (lastOp.op = "Det_GetLastError" /\ lastRet = E_OK) =>
        \A i \in valid : Det_ErrorBuffer[i].timestamp <= out.timestamp

\* C19: Det_GetLastError returns E_NOT_OK and writes nothing when the store
\* holds no valid entry, and returns E_OK whenever it holds at least one.
C19_LastErrorResult ==
    lastOp.op = "Det_GetLastError" =>
        /\ Det_BufferEntryCount = 0 => (lastRet = E_NOT_OK /\ out = NoOut)
        /\ Det_BufferEntryCount > 0 => lastRet = E_OK

\* C19 amended: Det_GetLastError returns E_NOT_OK and writes nothing when the
\* store holds no valid entry, and returns E_OK whenever it holds at least
\* one and the output pointer is not null.
C19_LastErrorResultNonNull ==
    lastOp.op = "Det_GetLastError" =>
        /\ Det_BufferEntryCount = 0 => (lastRet = E_NOT_OK /\ out = NoOut)
        /\ (Det_BufferEntryCount > 0 /\ lastOp.arg[1] # NULL_PTR) => lastRet = E_OK

\* Det_GetLastError, given an output object, failed on a store that
\* Det_ClearErrors had emptied of a reported entry
C19_Witness ==
    /\ lastOp.op = "Det_GetLastError"
    /\ lastOp.arg[1] # NULL_PTR
    /\ lastRet = E_NOT_OK
    /\ out = NoOut
    /\ Det_State = DET_STATE_STARTED
    /\ Det_BufferEntryCount = 0
    /\ Det_ErrorBuffer[0].moduleId # 0

\* C20: Det_IterateErrors with a non-null visitor visits every valid slot
\* exactly once, Det_BufferEntryCount visits in all, in the order the entries
\* were inserted, oldest first, also after the write index has wrapped; it
\* returns the number of visits and changes no state of the module.
C20_IterateOrder ==
    /\ []((lastOp.op = "Det_IterateErrors" /\ lastOp.arg[1] # NULL_PTR) =>
             /\ lastRet = Det_BufferEntryCount
             /\ Len(inserted) = Det_BufferEntryCount
             /\ { inserted[i] : i \in DOMAIN inserted } = valid
             /\ Det_BufferEntryCount > 0 =>
                    out = [i \in 1 .. Det_BufferEntryCount |->
                              Det_ErrorBuffer[inserted[i]]])
    /\ [][lastOp'.op = "Det_IterateErrors" => UNCHANGED progvars]_vars

\* the walk of a full store whose oldest entry is not in slot 0
C20_Witness ==
    /\ lastOp.op = "Det_IterateErrors"
    /\ lastOp.arg[1] # NULL_PTR
    /\ Det_BufferEntryCount = DET_MAX_ERROR_BUFFER_SIZE
    /\ Det_BufferWriteIndex > 0
    /\ lastRet = DET_MAX_ERROR_BUFFER_SIZE
    /\ Sig(out[1]) = Sig(Det_ErrorBuffer[Det_BufferWriteIndex])

\* every counter of the statistics st is 0
AllZero(st) == \A f \in DOMAIN st : st[f] = 0

\* C21: Det_ClearErrors resets the write cursor and the valid-entry count to
\* 0 and every statistics counter to 0, and leaves the filter table, the
\* callback registry and the lifecycle state unchanged.
C21_ClearErrors ==
    [][lastOp'.op = "Det_ClearErrors" =>
          /\ Det_BufferWriteIndex' = 0
          /\ Det_BufferEntryCount' = 0
          /\ AllZero(Det_Statistics')
          /\ UNCHANGED <<Det_Filters, Det_GlobalFilter, Det_Callbacks,
                         Det_CallbackCount, Det_State>>]_vars

\* Det_ClearErrors emptied, in Started state, a store that held a report of
\* module 2 while module 1 had a threshold of its own
C21_Witness ==
    /\ lastOp.op = "Det_ClearErrors"
    /\ Det_State = DET_STATE_STARTED
    /\ Det_Filters[1].is_configured
    /\ Det_Filters[1].min_severity = DET_SEVERITY_FATAL
    /\ Det_ErrorBuffer[0].moduleId = 2
    /\ Det_BufferEntryCount = 0

C23_DeInitClearsAll ==
    [][(lastOp'.op = "Det_DeInit"
            /\ Det_State \in {DET_STATE_INIT, DET_STATE_STARTED}) =>
          /\ Det_BufferEntryCount' = 0
          /\ AllZero(Det_Statistics')
          /\ Det_CallbackCount' = 0
          /\ DefaultFilters']_vars

C25_Lifecycle ==
    [][/\ Det_State' # Det_State =>
              \/ /\ lastOp'.op = "Det_Init"
                 /\ Det_State = DET_STATE_UNINIT
                 /\ Det_State' = DET_STATE_INIT
              \/ /\ lastOp'.op = "Det_Start"
                 /\ Det_State = DET_STATE_INIT
                 /\ Det_State' = DET_STATE_STARTED
              \/ /\ lastOp'.op = "Det_DeInit"
                 /\ Det_State \in {DET_STATE_INIT, DET_STATE_STARTED}
                 /\ Det_State' = DET_STATE_UNINIT
       /\ (lastOp'.op = "Det_Start"
               /\ Det_State \in {DET_STATE_UNINIT, DET_STATE_STARTED}) =>
              UNCHANGED progvars
       /\ (lastOp'.op = "Det_DeInit" /\ Det_State = DET_STATE_UNINIT) =>
              UNCHANGED progvars]_vars

\* a module that was started and took a report is back in Uninitialized
C25_Witness ==
    /\ lastOp.op = "Det_DeInit"
    /\ Det_State = DET_STATE_UNINIT
    /\ timestamp_counter > 0

\* the rest of the module's state, which Det_SetFilter does not touch
NotFilterTable ==
    <<Det_State, Det_ErrorBuffer, Det_BufferWriteIndex, Det_BufferEntryCount,
      Det_Callbacks, Det_CallbackCount, Det_Statistics, timestamp_counter>>

\* C30: Det_SetFilter with the sentinel 0xFFFF and a valid severity changes
\* the global threshold only; with a module id below 256 it changes that
\* module's entry only and marks it configured; with a severity above Fatal,
\* or a module id neither the sentinel nor below 256, it returns E_NOT_OK and
\* leaves the filter table as it is.
C30_SetFilter ==
    [][lastOp'.op = "Det_SetFilter" =>
          LET ModuleId == lastOp'.arg[1]
              MinSeverity == lastOp'.arg[2]
          IN  /\ UNCHANGED NotFilterTable
              /\ IF \/ MinSeverity > DET_SEVERITY_FATAL
                    \/ (ModuleId # DET_MODULE_ID_GLOBAL_FILTER
                           /\ ModuleId >= DET_MAX_MODULE_COUNT)
                 THEN /\ lastRet' = E_NOT_OK
                      /\ UNCHANGED <<Det_Filters, Det_GlobalFilter>>
                 ELSE IF ModuleId = DET_MODULE_ID_GLOBAL_FILTER
                 THEN /\ lastRet' = E_OK
                      /\ Det_GlobalFilter' = MinSeverity
                      /\ UNCHANGED Det_Filters
                 ELSE /\ lastRet' = E_OK
                      /\ Det_Filters'[ModuleId] =
                             [min_severity |-> MinSeverity, is_configured |-> TRUE]
                      /\ \A m \in DOMAIN Det_Filters \ {ModuleId} :
                             Det_Filters'[m] = Det_Filters[m]
                      /\ UNCHANGED Det_GlobalFilter]_vars

\* a call with an invalid module id and a valid severity was rejected on a
\* table that holds a module threshold and a global threshold
C30_Witness ==
    /\ lastOp.op = "Det_SetFilter"
    /\ lastOp.arg[1] = DET_MAX_MODULE_COUNT
    /\ lastOp.arg[2] <= DET_SEVERITY_FATAL
    /\ lastRet = E_NOT_OK
    /\ Det_Filters[1].is_configured
    /\ Det_GlobalFilter = DET_SEVERITY_FATAL

\* context d is inside Det_ReportRuntimeError or Det_ReportTransientFault:
\* the inner Det_ReportError has stored the report and counted it in
\* total_errors and errors, the class counter is not yet incremented
ClassPending(d) ==
    /\ pc[d] \in {"release", "callbacks"}
    /\ local[d].op \in {"Det_ReportRuntimeError", "Det_ReportTransientFault"}
    /\ local[d].ret = E_OK

\* context c copies Det_Statistics into the caller's object in this step
SnapshotStep(c) ==
    /\ pc[c] = "body"
    /\ local[c].op = "Det_GetStatistics"
    /\ pc'[c] = "release"

\* C26: a snapshot returned by Det_GetStatistics while the other context runs
\* report operations equals the statistics before or after some whole report
\* operation, never the middle of one: in particular Det_GetStatistics never
\* copies the statistics while a report of the other context is counted in
\* total_errors but not yet in runtime_errors or transient_faults.
C26_SnapshotWhole ==
    [][\A c \in Contexts :
          SnapshotStep(c) => \A d \in Contexts \ {c} : ~ClassPending(d)]_vars

\* the step is taken by a context that is between its Det_AcquireLock and
\* its Det_ReleaseLock
GuardedStep == \E c \in Contexts : pc'[c] # pc[c] /\ pc[c] \in {"body", "stats"}

\* C27: with multicore support every write of a report operation to the ring
\* store or to a statistics counter, and every read of Det_GetStatistics and
\* Det_GetLastError, is made by a context that has acquired the guard and
\* not yet released it.
C27_AccessUnderGuard ==
    [][(\/ Det_Statistics' # Det_Statistics
        \/ Det_ErrorBuffer' # Det_ErrorBuffer
        \/ Det_BufferWriteIndex' # Det_BufferWriteIndex
        \/ Det_BufferEntryCount' # Det_BufferEntryCount
        \/ \E c \in Contexts : SnapshotStep(c)) => GuardedStep]_vars

\* C28: in Started state every report operation returns E_OK, also a report
\* that overwrites a valid entry of a full store; the eviction shows in the
\* overflow counter and nowhere else.
C28_EvictionNotAFailure ==
    [][(ReportStep /\ Det_State = DET_STATE_STARTED) =>
          /\ lastRet' = E_OK
          /\ evicted' = evicted + 1 =>
                 Det_Statistics'.buffer_overflows = Det_Statistics.buffer_overflows + 1]_vars

\* C29: Det_ReportError returns E_OK on every call, in every lifecycle state
\* and whether or not the event was recorded.
C29_ReportErrorAlwaysOk ==
    lastOp.op = "Det_ReportError" => lastRet = E_OK

\* context c has used up the passes of Det_AcquireLock in its current or last
\* operation
Exhausted(c) == local[c] # NoLocal /\ local[c].timeout = 0

\* C31: a Det_AcquireLock that has used up its passes on a lock the other
\* context holds sets the lock word to 0 and returns; the report that called
\* it goes on to Det_AddToBuffer and to the statistics, and returns E_OK.
C31_AcquireNeverFails ==
    /\ [][\A c \in Contexts :
              /\ (pc[c] = "acquire" /\ Exhausted(c) /\ pc'[c] # pc[c]) =>
                     /\ Det_BufferLock'.lock = 0
                     /\ pc'[c] = "body"
              /\ (pc[c] = "body" /\ Exhausted(c) /\ pc'[c] # pc[c]
                      /\ local[c].op \in ReportOps) =>
                     /\ timestamp_counter' = timestamp_counter + 1
                     /\ pc'[c] = "stats"
              /\ (pc[c] = "stats" /\ Exhausted(c) /\ pc'[c] # pc[c]) =>
                     /\ Det_Statistics'.total_errors = local[c].total_errors + 1
                     /\ Det_Statistics'.errors = Det_Statistics.errors + 1
                     /\ pc'[c] = "release"]_vars
    /\ [](\A c \in Contexts :
              (Exhausted(c) /\ local[c].op \in ReportOps) => local[c].ret = E_OK)

\* a report of context 1 has returned after its Det_AcquireLock had used up
\* its passes, and has left its entry in the store
C31_Witness ==
    /\ pc[1] = "idle"
    /\ Exhausted(1)
    /\ local[1].op = "Det_ReportError"
    /\ local[1].ret = E_OK
    /\ local[1].calls # <<>>
    /\ Stored(local[1].sig)
    /\ Det_Statistics.total_errors >= 1

\* the contexts whose one call was a report that passed the filter
AcceptedContexts ==
    { c \in Contexts : /\ local[c] # NoLocal
                       /\ local[c].op \in ReportOps
                       /\ local[c].ret = E_OK
                       /\ ~Det_IsErrorFiltered(local[c].sig[1], DET_SEVERITY_ERROR) }

\* every call made so far was a report, one per context at most, and all
\* have returned
OneReportEach ==
    /\ \A c \in Contexts : pc[c] = "idle"
    /\ nops = Cardinality({ c \in Contexts : local[c] # NoLocal })
    /\ \A c \in Contexts : local[c] # NoLocal => local[c].op \in ReportOps

\* the occurrences of the valid entries below slot n that hold sig
RECURSIVE OccurrencesBelow(_, _)
OccurrencesBelow(n, sig) ==
    IF n = 0 THEN 0
    ELSE (IF Sig(Det_ErrorBuffer[n - 1]) = sig
          THEN Det_ErrorBuffer[n - 1].occurrences ELSE 0)
         + OccurrencesBelow(n - 1, sig)

\* C32: once the reports of the two contexts have returned, with no clear in
\* between, total_errors is the number of reports that passed the filter,
\* and the occurrences stored for a signature are the number of its reports.
C32_NoLostUpdate ==
    OneReportEach =>
        /\ Det_Statistics.total_errors = Cardinality(AcceptedContexts)
        /\ \A c \in AcceptedContexts :
               OccurrencesBelow(Det_BufferEntryCount, local[c].sig) =
                   Cardinality({ d \in AcceptedContexts : local[d].sig = local[c].sig })

\* the slot indices the dedup scan of Det_AddToBuffer computes from the
\* current write index and entry count
ScannedSlots ==
    { ScanIdx(Det_BufferWriteIndex, i) : i \in 0 .. (Det_BufferEntryCount - 1) }

\* C33: for every reachable write index and entry count the indices of the
\* dedup scan lie in 0 .. N-1 and visit every valid slot exactly once.
C33_ScanCoversValidSlots ==
    /\ ScannedSlots \subseteq Slots
    /\ ScannedSlots = valid
    /\ Cardinality(ScannedSlots) = Det_BufferEntryCount

\* C34: an accepted report whose signature is held by a valid entry adds
\* one to that entry's occurrences and overwrites its timestamp, and leaves
\* the write index, the entry count, unique_errors, buffer_overflows and
\* every other slot as they were; an accepted report whose signature no valid
\* entry holds writes the record with occurrences 1 at the write index and
\* advances the write index by one modulo N, leaving every other slot as it
\* was.
C34_ReportFrame ==
    [][AcceptedStep =>
          IF Stored(lastOp'.arg)
          THEN /\ \E i \in SlotsOf(lastOp'.arg) :
                      Det_ErrorBuffer' =
                          [Det_ErrorBuffer EXCEPT
                              ![i].occurrences = @ + 1,
                              ![i].timestamp = timestamp_counter]
               /\ UNCHANGED <<Det_BufferWriteIndex, Det_BufferEntryCount>>
               /\ Det_Statistics'.unique_errors = Det_Statistics.unique_errors
               /\ Det_Statistics'.buffer_overflows = Det_Statistics.buffer_overflows
          ELSE /\ Det_ErrorBuffer' =
                      [Det_ErrorBuffer EXCEPT
                          ![Det_BufferWriteIndex] =
                              Entry(lastOp'.arg, DET_SEVERITY_ERROR, timestamp_counter, 1)]
               /\ Det_BufferWriteIndex' =
                      (Det_BufferWriteIndex + 1) % DET_MAX_ERROR_BUFFER_SIZE]_vars

\* the positions of a report operation from its Det_AcquireLock to the end of
\* Det_InvokeCallbacks
PastFilter == {"acquire", "body", "stats", "release", "callbacks"}

\* C35: a report is put to the severity filter exactly once, after the
\* lifecycle check and before Det_AcquireLock: a report that is at or past
\* Det_AcquireLock was made in Started state and has passed the filter, and
\* suppressed_by_filter is incremented, by one, only in the step that
\* evaluates the filter, which touches neither the lock nor the store and
\* leads to no observer call.
C35_FilterBeforeGuard ==
    /\ [](\A c \in Contexts :
              (pc[c] \in PastFilter /\ local[c].op \in ReportOps) =>
                  /\ Det_State = DET_STATE_STARTED
                  /\ ~(DET_SEVERITY_ERROR < EffectiveThreshold(local[c].sig[1])))
    /\ [][\A c \in Contexts :
              /\ (pc[c] = "idle" /\ pc'[c] # pc[c] /\ local'[c].op \in ReportOps
                      /\ DET_SEVERITY_ERROR < EffectiveThreshold(local'[c].sig[1])) =>
                     /\ Det_Statistics' =
                            [Det_Statistics EXCEPT !.suppressed_by_filter = @ + 1]
                     /\ pc'[c] \notin PastFilter
                     /\ local'[c].calls = <<>>
                     /\ UNCHANGED <<Det_BufferLock, Det_ErrorBuffer,
                                    Det_BufferWriteIndex, Det_BufferEntryCount>>
              /\ (pc[c] # "idle" /\ pc'[c] # pc[c] /\ local[c].op \in ReportOps) =>
                     Det_Statistics'.suppressed_by_filter =
                         Det_Statistics.suppressed_by_filter]_vars

\* a report of context 1 is suppressed while context 2 holds the lock
C35_Witness ==
    /\ InRegion(2)
    /\ Det_BufferLock.lock = 1
    /\ pc[1] = "class"
    /\ local[1].op = "Det_ReportRuntimeError"
    /\ local[1].ret = E_OK
    /\ local[1].attempts = 0
    /\ DET_SEVERITY_ERROR < EffectiveThreshold(local[1].sig[1])
    /\ Det_Statistics.suppressed_by_filter = 1

\* the step is one of the calls that empty the store: Det_ClearErrors,
\* Det_DeInit, or a Det_Init made in Uninitialized state
ResetStep ==
    \/ lastOp'.op \in {"Det_ClearErrors", "Det_DeInit"}
    \/ lastOp'.op = "Det_Init" /\ Det_State = DET_STATE_UNINIT

\* C36: across every step other than Det_ClearErrors, Det_DeInit and a
\* Det_Init that takes effect the number of valid entries does not decrease,
\* and once it is N it stays N.
C36_CountMonotone ==
    [][~ResetStep =>
          /\ Det_BufferEntryCount' >= Det_BufferEntryCount
          /\ Det_BufferEntryCount = DET_MAX_ERROR_BUFFER_SIZE =>
                 Det_BufferEntryCount' = DET_MAX_ERROR_BUFFER_SIZE]_vars

\* a report has been stored into a full store, which is still full
C36_Witness ==
    /\ lastOp.op \in ReportOps
    /\ lastRet = E_OK
    /\ evicted >= 1
    /\ Det_BufferEntryCount = DET_MAX_ERROR_BUFFER_SIZE
    /\ Det_Statistics.unique_errors > DET_MAX_ERROR_BUFFER_SIZE

\* the statistics counters
Counters ==
    {"total_errors", "unique_errors", "buffer_overflows", "runtime_errors",
     "transient_faults", "warnings", "errors", "fatals", "suppressed_by_filter"}

\* C37: in a single context no statistics counter decreases across a step
\* other than Det_ClearErrors, Det_DeInit and a Det_Init that takes effect.
C37_CountersMonotone ==
    [][~ResetStep =>
          \A k \in Counters : Det_Statistics'[k] >= Det_Statistics[k]]_vars

\* the counters of accepted reports have moved, the last time in the step
\* just taken
C37_Witness ==
    /\ lastOp.op = "Det_ReportTransientFault"
    /\ lastRet = E_OK
    /\ Det_Statistics.total_errors >= 2
    /\ Det_Statistics.errors >= 2
    /\ Det_Statistics.unique_errors >= 2
    /\ Det_Statistics.buffer_overflows >= 1
    /\ Det_Statistics.runtime_errors >= 1
    /\ Det_Statistics.transient_faults >= 1

\* the slots of the store this step writes to
Touched == { i \in Slots : Det_ErrorBuffer'[i] # Det_ErrorBuffer[i] }

\* C38: in a single context the timestamp of a valid entry is the value the
\* counter had when the entry was last inserted or bumped: an accepted report
\* stamps the entry it writes with the counter and advances the counter by
\* one, so that entry holds the strictly greatest timestamp among the valid
\* entries and all valid timestamps lie below the counter; Det_ClearErrors
\* and Det_DeInit leave the counter as it is.
C38_Timestamps ==
    /\ [](\A i \in valid : /\ Det_ErrorBuffer[i].timestamp >= 0
                            /\ Det_ErrorBuffer[i].timestamp < timestamp_counter)
    /\ [][AcceptedStep =>
              /\ timestamp_counter' = timestamp_counter + 1
              /\ \A i \in Touched :
                     /\ i \in ValidSlots(Det_BufferEntryCount')
                     /\ Det_ErrorBuffer'[i].timestamp = timestamp_counter
                     /\ \A j \in ValidSlots(Det_BufferEntryCount') \ {i} :
                            Det_ErrorBuffer'[j].timestamp <
                                Det_ErrorBuffer'[i].timestamp]_vars
    /\ [][lastOp'.op \in {"Det_ClearErrors", "Det_DeInit"} =>
              UNCHANGED timestamp_counter]_vars

\* a report has bumped an entry of a full store that is not the one in the
\* slot before the write index; the entry holds the counter value taken last
C38_Witness ==
    /\ lastOp.op \in ReportOps
    /\ Det_BufferEntryCount = DET_MAX_ERROR_BUFFER_SIZE
    /\ \E i \in valid :
           /\ Det_ErrorBuffer[i].occurrences >= 2
           /\ Det_ErrorBuffer[i].timestamp = timestamp_counter - 1
           /\ i # LastErrorIndex

\* C39: in every state a single context can reach, count <= unique_errors <=
\* total_errors, total_errors equals the Error severity counter, the Warning
\* and Fatal counters are 0, and every valid entry has severity Error and at
\* least one occurrence.
C39_SingleSeverity ==
    /\ Det_BufferEntryCount <= Det_Statistics.unique_errors
    /\ Det_Statistics.unique_errors <= Det_Statistics.total_errors
    /\ Det_Statistics.total_errors = Det_Statistics.errors
    /\ Det_Statistics.warnings = 0
    /\ Det_Statistics.fatals = 0
    /\ \A i \in valid : /\ Det_ErrorBuffer[i].severity = DET_SEVERITY_ERROR
                         /\ Det_ErrorBuffer[i].occurrences >= 1

\* the store is full and holds an entry reported twice: more reports were
\* accepted than signatures inserted
C39_Witness ==
    /\ Det_BufferEntryCount = DET_MAX_ERROR_BUFFER_SIZE
    /\ Det_Statistics.unique_errors >= Det_BufferEntryCount
    /\ Det_Statistics.total_errors > Det_Statistics.unique_errors
    /\ Det_Statistics.errors = Det_Statistics.total_errors
    /\ \E i \in valid : Det_ErrorBuffer[i].occurrences >= 2

\* the step is a Det_Init made in Uninitialized state
EffectiveInit == nsteps' = nsteps + 1 /\ lastOp'.op = "Det_Init" /\ Det_State = DET_STATE_UNINIT

\* the source a report counted in this step names: DET itself where the step
\* is no report operation
ReportedModule == IF lastOp'.op \in ReportOps THEN lastOp'.arg[1] ELSE DET_MODULE_ID

\* C40 as stated: every Det_RegisterCallback and Det_SetFilter called in
\* Uninitialized state returns E_OK and changes the registry or the filter
\* table.
C40_AlwaysOkInUninit ==
    [][(/\ nsteps' = nsteps + 1
        /\ lastOp'.op \in {"Det_RegisterCallback", "Det_SetFilter"}
        /\ Det_State = DET_STATE_UNINIT) =>
          /\ lastRet' = E_OK
          /\ <<Det_Callbacks, Det_CallbackCount, Det_Filters, Det_GlobalFilter>>' #
                 <<Det_Callbacks, Det_CallbackCount, Det_Filters, Det_GlobalFilter>>]_vars

\* C40, amended: Det_RegisterCallback and Det_SetFilter do not look at the
\* lifecycle state.  Called in Uninitialized state with arguments they accept
\* in any state (an observer that is not null and not registered while the
\* registry has room; a severity up to Fatal with the sentinel or a module id
\* below 256) they return E_OK and write the registry or the filter table.
\* The next Det_Init that takes effect empties the registry and puts the
\* filters back to their defaults, so every observer notified was registered,
\* and every threshold that suppresses a report was set, after that Det_Init.
C40_NotGated ==
    /\ [][(RegisterStep /\ Det_State = DET_STATE_UNINIT
               /\ lastOp'.arg[1] # NULL_PTR
               /\ Det_CallbackCount < DET_MAX_CALLBACKS
               /\ lastOp'.arg[1] \notin Registered) =>
              /\ lastRet' = E_OK
              /\ Det_CallbackCount' = Det_CallbackCount + 1
              /\ Det_Callbacks' =
                     [Det_Callbacks EXCEPT ![Det_CallbackCount] = lastOp'.arg[1]]]_vars
    /\ [][(nsteps' = nsteps + 1 /\ lastOp'.op = "Det_SetFilter"
               /\ Det_State = DET_STATE_UNINIT
               /\ lastOp'.arg[2] <= DET_SEVERITY_FATAL
               /\ (lastOp'.arg[1] = DET_MODULE_ID_GLOBAL_FILTER
                      \/ lastOp'.arg[1] < DET_MAX_MODULE_COUNT)) =>
              /\ lastRet' = E_OK
              /\ IF lastOp'.arg[1] = DET_MODULE_ID_GLOBAL_FILTER
                 THEN Det_GlobalFilter' = lastOp'.arg[2]
                 ELSE Det_Filters'[lastOp'.arg[1]] =
                          [min_severity |-> lastOp'.arg[2], is_configured |-> TRUE]]_vars
    /\ [][EffectiveInit =>
              /\ Det_CallbackCount' = 0
              /\ \A i \in DOMAIN Det_Callbacks : Det_Callbacks'[i] = NULL_PTR
              /\ Det_GlobalFilter' = DET_SEVERITY_WARNING
              /\ \A m \in FilterIndex : ~Det_Filters'[m].is_configured]_vars
    /\ [](\A k \in 1 .. Len(notified) :
              notified[k][1] \in history.live.observers)
    /\ [][Det_Statistics'.suppressed_by_filter > Det_Statistics.suppressed_by_filter =>
              \/ ReportedModule \in history.live.keys
              \/ DET_MODULE_ID_GLOBAL_FILTER \in history.live.keys]_vars

\* an observer was registered and a threshold of Fatal set for a module in
\* Uninitialized state; after Det_Init and Det_Start a report of that module
\* has been accepted and no observer was notified
C40_Witness ==
    /\ Det_State = DET_STATE_STARTED
    /\ history.discarded.observers # {}
    /\ lastOp.op \in ReportOps
    /\ lastOp.arg[1] \in history.discarded.keys
    /\ history.live = NoSetup
    /\ lastRet = E_OK
    /\ Det_Statistics.total_errors = 1
    /\ Det_Statistics.suppressed_by_filter = 0
    /\ notified = <<>>

====
